---------------------------- MODULE Spec2Model ----------------------------
(***************************************************************************)
(* State-machine model of the payment engine in src/src/lib.rs.           *)
(*                                                                         *)
(* process_records folds the rows of the input, one by one and in input    *)
(* order, into account_map (client id -> Account) and tx_set (the ids      *)
(* consumed by deposits and withdrawals).  One step of the model is one    *)
(* iteration of the loop at lib.rs:438-461: the row is read into records,  *)
(* its client and tx fields are parsed, the row is decoded into a          *)
(* Transaction, the owning account is looked up or created, and            *)
(* Account::update dispatches on the type string.  A field that does not   *)
(* parse, or the end of the input, ends the loop: result is what           *)
(* process_records returns.                                                *)
(*                                                                         *)
(* Money.  A Decimal that has been through rescale(4) is modelled by its   *)
(* integer number of 1/10000 units.  An amount read from the input is the  *)
(* pair <<mantissa, scale>> it was written with (1.5 is <<15, 1>>), so     *)
(* that rescale has something to do.  The 96-bit mantissa of Decimal is    *)
(* scaled down to DecimalMax units; checked_add and checked_sub answer     *)
(* None outside [-DecimalMax, DecimalMax].  Input amounts are taken among  *)
(* those whose 4-digit form fits that range.                               *)
(***************************************************************************)
EXTENDS Integers, Sequences, FiniteSets, TLC

VARIABLES
    account_map,   \* lib.rs:436  HashMap<u16, Account>
    tx_set,        \* lib.rs:435  HashSet<u32>
    records,       \* lib.rs:437  the fields of the row read last, as written
    result,        \* lib.rs:399  what process_records has returned, Reading
                   \*             while it is in the loop
    last,          \* history: the Transaction applied by the last step
    presented,     \* history: the tx of every row that reached
                   \*          Account::deposit or Account::withdrawl
    before,        \* history: account_map, tx_set and presented before the
                   \*          last step
    before2,       \* history: <<before>> of the previous step, kept when the
                   \*          last two rows are a dispute and then a resolve
                   \*          of the same client and tx; <<>> otherwise
    log            \* history: the rows consumed so far (scenario runs only)

vars == <<account_map, tx_set, records, result, last, presented, before,
          before2, log>>

---------------------------------------------------------------------------
(* Bounds of the model *)

MaxClient == 2
MaxTx == 3
DecimalMax == 30000
MaxLog == 5
MaxStream == 3

(* rescale(4): lib.rs:196, lib.rs:244 *)
Scale == 4

Clients == 1..MaxClient
TxIds == 1..MaxTx

None == <<>>
Some(m, s) == <<m, s>>
IsSome(o) == o # None

(* 2^16.  A numeral is held as its value split at 2^16, high * Word + low, *)
(* so that a value beyond 32 bits can be written down.                     *)
Word == 65536

(* A client or tx field as written in the row: a decimal numeral, or text   *)
(* that is no numeral (empty, signed with -, with a point, with letters).  *)
Numeral(high, low) == [numeric |-> TRUE, high |-> high, low |-> low]
Field(v) == Numeral(v \div Word, v % Word)
NotANumber == [numeric |-> FALSE, high |-> 0, low |-> 0]

(* str::parse::<u16> and str::parse::<u32>: <<v>> is Ok(v), None is Err *)
parse_u16(field) ==
    IF field.numeric /\ field.high = 0
    THEN <<field.low>>
    ELSE None

parse_u32(field) ==
    IF field.numeric /\ field.high < Word
    THEN <<field.high * Word + field.low>>
    ELSE None

(* Result<HashMap<u16, Account>, EngineError>, and Reading before the return *)
Reading == [tag |-> "Reading"]
Err == [tag |-> "Err", error |-> "ParseIntError"]
Ok(accounts) == [tag |-> "Ok", accounts |-> accounts]

---------------------------------------------------------------------------
(* Decimal *)

RECURSIVE Pow10(_)
Pow10(n) == IF n = 0 THEN 1 ELSE 10 * Pow10(n - 1)

(* The sign test `amount < Decimal::ZERO` on the amount as written. *)
IsNegative(amount) == amount[1] < 0

(* Mutant of rescale_down: the dropped digits are cut off, never rounded *)
RECURSIVE rescale_down_truncates(_, _, _)
rescale_down_truncates(value, diff, remainder) ==
    IF diff = 0 THEN value
    ELSE rescale_down_truncates(value \div 10, diff - 1, value % 10)

(* The loop of Decimal::rescale towards a smaller scale: divide the        *)
(* mantissa by 10 once per digit to drop, keeping only the remainder of    *)
(* the last division; stop early once the mantissa is zero; add one when   *)
(* that last remainder is 5 or more.                                       *)
RECURSIVE rescale_down(_, _, _)
rescale_down(value, diff, remainder) ==
    IF diff = 0 THEN (IF remainder >= 5 THEN value + 1 ELSE value)
    ELSE IF value = 0 THEN 0
    ELSE rescale_down(value \div 10, diff - 1, value % 10)

(* amount.rescale(4) of a non-negative amount, in 1/10000 units. *)
rescale(amount) ==
    LET m == amount[1]
        s == amount[2]
    IN  IF s <= Scale THEN m * Pow10(Scale - s)
        ELSE rescale_down(m, s - Scale, 0)

InRange(v) == -DecimalMax <= v /\ v <= DecimalMax

(* Option<Decimal>: <<v>> is Some(v), <<>> is None *)
checked_add(a, b) == IF InRange(a + b) THEN <<a + b>> ELSE None

checked_sub(a, b) == IF InRange(a - b) THEN <<a - b>> ELSE None

---------------------------------------------------------------------------
(* Deposit and Account *)

NotDisputed == "NotDisputed"
Disputed == "Disputed"
Chargebacked == "Chargebacked"

DepositNew(deposited_amount) ==
    [amount |-> deposited_amount, state |-> NotDisputed]

EmptyMap == [t \in {} |-> 0]

AccountNew(client_num) ==
    [client |-> client_num, available |-> 0, held |-> 0, total |-> 0,
     locked |-> FALSE, deposited |-> EmptyMap]

(* Mutant of Insert: the value is written under every key of the map *)
Insert_everywhere(map, k, v) ==
    [x \in (DOMAIN map) \cup {k} |-> v]

(* HashMap::insert: adds the key or overwrites its value *)
Insert(map, k, v) ==
    [x \in (DOMAIN map) \cup {k} |-> IF x = k THEN v ELSE map[x]]

(* What a handler leaves behind: the account and the id set *)
Out(acct, set) == [account |-> acct, tx_set |-> set]

(* Mutant of deposit: the duplicate-id test of lib.rs:173 is missing *)
deposit_unchecked_id(self, data, set) ==
    LET set1 == set \cup {data.tx} IN
      IF ~IsSome(data.amount) THEN Out(self, set1)
      ELSE IF self.locked THEN Out(self, set1)
      ELSE IF IsNegative(data.amount) THEN Out(self, set1)
      ELSE LET deposit_amount == rescale(data.amount)
               total_new == checked_add(self.total, deposit_amount)
               available_new == checked_add(self.available, deposit_amount)
           IN  IF IsSome(total_new) /\ IsSome(available_new)
               THEN Out([self EXCEPT !.total = total_new[1],
                                     !.available = available_new[1],
                                     !.deposited = Insert(@, data.tx,
                                                     DepositNew(deposit_amount))],
                        set1)
               ELSE Out(self, set1)

(* Mutant of deposit: the Deposit is recorded before the additions are     *)
(* checked, so an overflowing deposit leaves its record behind             *)
deposit_records_first(self, data, set) ==
    IF data.tx \in set THEN Out(self, set)
    ELSE LET set1 == set \cup {data.tx} IN
      IF ~IsSome(data.amount) THEN Out(self, set1)
      ELSE IF self.locked THEN Out(self, set1)
      ELSE IF IsNegative(data.amount) THEN Out(self, set1)
      ELSE LET deposit_amount == rescale(data.amount)
               total_new == checked_add(self.total, deposit_amount)
               available_new == checked_add(self.available, deposit_amount)
               recorded == [self EXCEPT !.deposited =
                               Insert(@, data.tx, DepositNew(deposit_amount))]
           IN  IF IsSome(total_new) /\ IsSome(available_new)
               THEN Out([recorded EXCEPT !.total = total_new[1],
                                         !.available = available_new[1]],
                        set1)
               ELSE Out(recorded, set1)

(* Mutant of deposit: the id is consumed only after the amount was found    *)
(* present (lib.rs:180 moved below lib.rs:181)                             *)
deposit_consumes_late(self, data, set) ==
    IF data.tx \in set THEN Out(self, set)
    ELSE LET set1 == set \cup {data.tx} IN
      IF ~IsSome(data.amount) THEN Out(self, set)
      ELSE IF self.locked THEN Out(self, set1)
      ELSE IF IsNegative(data.amount) THEN Out(self, set1)
      ELSE LET deposit_amount == rescale(data.amount)
               total_new == checked_add(self.total, deposit_amount)
               available_new == checked_add(self.available, deposit_amount)
           IN  IF IsSome(total_new) /\ IsSome(available_new)
               THEN Out([self EXCEPT !.total = total_new[1],
                                     !.available = available_new[1],
                                     !.deposited = Insert(@, data.tx,
                                                     DepositNew(deposit_amount))],
                        set1)
               ELSE Out(self, set1)

(* Mutant of deposit: a tx is a duplicate when the account of the row       *)
(* already holds a Deposit for it, ids being counted per account           *)
deposit_per_account_ids(self, data, set) ==
    IF data.tx \in DOMAIN self.deposited THEN Out(self, set)
    ELSE LET set1 == set \cup {data.tx} IN
      IF ~IsSome(data.amount) THEN Out(self, set1)
      ELSE IF self.locked THEN Out(self, set1)
      ELSE IF IsNegative(data.amount) THEN Out(self, set1)
      ELSE LET deposit_amount == rescale(data.amount)
               total_new == checked_add(self.total, deposit_amount)
               available_new == checked_add(self.available, deposit_amount)
           IN  IF IsSome(total_new) /\ IsSome(available_new)
               THEN Out([self EXCEPT !.total = total_new[1],
                                     !.available = available_new[1],
                                     !.deposited = Insert(@, data.tx,
                                                     DepositNew(deposit_amount))],
                        set1)
               ELSE Out(self, set1)

deposit(self, data, set) ==
    IF data.tx \in set THEN Out(self, set)
    ELSE LET set1 == set \cup {data.tx} IN
      IF ~IsSome(data.amount) THEN Out(self, set1)
      ELSE IF self.locked THEN Out(self, set1)
      ELSE IF IsNegative(data.amount) THEN Out(self, set1)
      ELSE LET deposit_amount == rescale(data.amount)
               total_new == checked_add(self.total, deposit_amount)
               available_new == checked_add(self.available, deposit_amount)
           IN  IF IsSome(total_new) /\ IsSome(available_new)
               THEN Out([self EXCEPT !.total = total_new[1],
                                     !.available = available_new[1],
                                     !.deposited = Insert(@, data.tx,
                                                     DepositNew(deposit_amount))],
                        set1)
               ELSE Out(self, set1)

(* Mutant of withdrawl: the tx_set.insert of lib.rs:228 is missing *)
withdrawl_forgets_id(self, data, set) ==
    IF data.tx \in set THEN Out(self, set)
    ELSE
      IF ~IsSome(data.amount) THEN Out(self, set)
      ELSE IF self.locked THEN Out(self, set)
      ELSE IF IsNegative(data.amount) THEN Out(self, set)
      ELSE LET withdrawl_amount == rescale(data.amount)
               total_new == checked_sub(self.total, withdrawl_amount)
               available_new == checked_sub(self.available, withdrawl_amount)
           IN  IF self.available < withdrawl_amount THEN Out(self, set)
               ELSE IF IsSome(total_new) /\ IsSome(available_new)
               THEN Out([self EXCEPT !.total = total_new[1],
                                     !.available = available_new[1]],
                        set)
               ELSE Out(self, set)

(* Mutant of withdrawl: the lock test of lib.rs:229-233 is missing *)
withdrawl_ignores_lock(self, data, set) ==
    IF data.tx \in set THEN Out(self, set)
    ELSE LET set1 == set \cup {data.tx} IN
      IF ~IsSome(data.amount) THEN Out(self, set1)
      ELSE IF IsNegative(data.amount) THEN Out(self, set1)
      ELSE LET withdrawl_amount == rescale(data.amount)
               total_new == checked_sub(self.total, withdrawl_amount)
               available_new == checked_sub(self.available, withdrawl_amount)
           IN  IF self.available < withdrawl_amount THEN Out(self, set1)
               ELSE IF IsSome(total_new) /\ IsSome(available_new)
               THEN Out([self EXCEPT !.total = total_new[1],
                                     !.available = available_new[1]],
                        set1)
               ELSE Out(self, set1)

(* Mutant of withdrawl: the id is consumed only when the withdrawal is      *)
(* carried out                                                             *)
withdrawl_consumes_on_success(self, data, set) ==
    IF data.tx \in set THEN Out(self, set)
    ELSE LET set1 == set \cup {data.tx} IN
      IF ~IsSome(data.amount) THEN Out(self, set)
      ELSE IF self.locked THEN Out(self, set)
      ELSE IF IsNegative(data.amount) THEN Out(self, set)
      ELSE LET withdrawl_amount == rescale(data.amount)
               total_new == checked_sub(self.total, withdrawl_amount)
               available_new == checked_sub(self.available, withdrawl_amount)
           IN  IF self.available < withdrawl_amount THEN Out(self, set)
               ELSE IF IsSome(total_new) /\ IsSome(available_new)
               THEN Out([self EXCEPT !.total = total_new[1],
                                     !.available = available_new[1]],
                        set1)
               ELSE Out(self, set)

withdrawl(self, data, set) ==
    IF data.tx \in set THEN Out(self, set)
    ELSE LET set1 == set \cup {data.tx} IN
      IF ~IsSome(data.amount) THEN Out(self, set1)
      ELSE IF self.locked THEN Out(self, set1)
      ELSE IF IsNegative(data.amount) THEN Out(self, set1)
      ELSE LET withdrawl_amount == rescale(data.amount)
               total_new == checked_sub(self.total, withdrawl_amount)
               available_new == checked_sub(self.available, withdrawl_amount)
           IN  IF self.available < withdrawl_amount THEN Out(self, set1)
               ELSE IF IsSome(total_new) /\ IsSome(available_new)
               THEN Out([self EXCEPT !.total = total_new[1],
                                     !.available = available_new[1]],
                        set1)
               ELSE Out(self, set1)

(* Mutant of dispute: the Chargebacked arm of lib.rs:276 is missing, so a   *)
(* charged-back deposit is disputed like a NotDisputed one                 *)
dispute_reopens_chargeback(self, data) ==
    IF data.tx \notin DOMAIN self.deposited THEN self
    ELSE LET deposited == self.deposited[data.tx] IN
      IF deposited.state = Disputed THEN self
      ELSE LET available_new == checked_sub(self.available, deposited.amount)
               held_new == checked_add(self.held, deposited.amount)
           IN  IF IsSome(available_new) /\ IsSome(held_new)
               THEN [self EXCEPT !.available = available_new[1],
                                 !.held = held_new[1],
                                 !.deposited[data.tx].state = Disputed]
               ELSE self

(* Mutant of dispute: available is written before the addition to held is   *)
(* checked, so a dispute refused for held keeps the new available          *)
dispute_partial(self, data) ==
    IF data.tx \notin DOMAIN self.deposited THEN self
    ELSE LET deposited == self.deposited[data.tx] IN
      IF deposited.state = Chargebacked THEN self
      ELSE IF deposited.state = Disputed THEN self
      ELSE LET available_new == checked_sub(self.available, deposited.amount)
               held_new == checked_add(self.held, deposited.amount)
           IN  IF IsSome(available_new) /\ IsSome(held_new)
               THEN [self EXCEPT !.available = available_new[1],
                                 !.held = held_new[1],
                                 !.deposited[data.tx].state = Disputed]
               ELSE IF IsSome(available_new)
               THEN [self EXCEPT !.available = available_new[1]]
               ELSE self

(* Mutant of dispute: a dispute is refused when available does not cover    *)
(* the deposit                                                             *)
dispute_requires_funds(self, data) ==
    IF data.tx \notin DOMAIN self.deposited THEN self
    ELSE LET deposited == self.deposited[data.tx] IN
      IF deposited.state = Chargebacked THEN self
      ELSE IF deposited.state = Disputed THEN self
      ELSE IF self.available < deposited.amount THEN self
      ELSE LET available_new == checked_sub(self.available, deposited.amount)
               held_new == checked_add(self.held, deposited.amount)
           IN  IF IsSome(available_new) /\ IsSome(held_new)
               THEN [self EXCEPT !.available = available_new[1],
                                 !.held = held_new[1],
                                 !.deposited[data.tx].state = Disputed]
               ELSE self

dispute(self, data) ==
    IF data.tx \notin DOMAIN self.deposited THEN self
    ELSE LET deposited == self.deposited[data.tx] IN
      IF deposited.state = Chargebacked THEN self
      ELSE IF deposited.state = Disputed THEN self
      ELSE LET available_new == checked_sub(self.available, deposited.amount)
               held_new == checked_add(self.held, deposited.amount)
           IN  IF IsSome(available_new) /\ IsSome(held_new)
               THEN [self EXCEPT !.available = available_new[1],
                                 !.held = held_new[1],
                                 !.deposited[data.tx].state = Disputed]
               ELSE self

(* Mutant of resolve: the NotDisputed arm of lib.rs:334 releases funds too *)
resolve_without_dispute(self, data) ==
    IF data.tx \notin DOMAIN self.deposited THEN self
    ELSE LET deposited == self.deposited[data.tx] IN
      IF deposited.state = Chargebacked THEN self
      ELSE LET available_new == checked_add(self.available, deposited.amount)
               held_new == checked_sub(self.held, deposited.amount)
           IN  IF IsSome(available_new) /\ IsSome(held_new)
               THEN [self EXCEPT !.available = available_new[1],
                                 !.held = held_new[1],
                                 !.deposited[data.tx].state = NotDisputed]
               ELSE self

(* Mutant of resolve: a resolved dispute also unfreezes the account *)
resolve_unlocks(self, data) ==
    IF data.tx \notin DOMAIN self.deposited THEN self
    ELSE LET deposited == self.deposited[data.tx] IN
      IF deposited.state = Chargebacked THEN self
      ELSE IF deposited.state = Disputed
      THEN LET available_new == checked_add(self.available, deposited.amount)
               held_new == checked_sub(self.held, deposited.amount)
           IN  IF IsSome(available_new) /\ IsSome(held_new)
               THEN [self EXCEPT !.available = available_new[1],
                                 !.held = held_new[1],
                                 !.deposited[data.tx].state = NotDisputed,
                                 !.locked = FALSE]
               ELSE self
      ELSE self

(* Mutant of resolve: the state update of lib.rs:324 is missing *)
resolve_stays_disputed(self, data) ==
    IF data.tx \notin DOMAIN self.deposited THEN self
    ELSE LET deposited == self.deposited[data.tx] IN
      IF deposited.state = Chargebacked THEN self
      ELSE IF deposited.state = Disputed
      THEN LET available_new == checked_add(self.available, deposited.amount)
               held_new == checked_sub(self.held, deposited.amount)
           IN  IF IsSome(available_new) /\ IsSome(held_new)
               THEN [self EXCEPT !.available = available_new[1],
                                 !.held = held_new[1]]
               ELSE self
      ELSE self

resolve(self, data) ==
    IF data.tx \notin DOMAIN self.deposited THEN self
    ELSE LET deposited == self.deposited[data.tx] IN
      IF deposited.state = Chargebacked THEN self
      ELSE IF deposited.state = Disputed
      THEN LET available_new == checked_add(self.available, deposited.amount)
               held_new == checked_sub(self.held, deposited.amount)
           IN  IF IsSome(available_new) /\ IsSome(held_new)
               THEN [self EXCEPT !.available = available_new[1],
                                 !.held = held_new[1],
                                 !.deposited[data.tx].state = NotDisputed]
               ELSE self
      ELSE self

(* Mutant of chargeback: total is not reduced (lib.rs:360 missing) *)
chargeback_keeps_total(self, data) ==
    IF data.tx \notin DOMAIN self.deposited THEN self
    ELSE LET deposited == self.deposited[data.tx] IN
      IF deposited.state = Chargebacked THEN self
      ELSE IF deposited.state = Disputed
      THEN LET held_new == checked_sub(self.held, deposited.amount)
           IN  IF IsSome(held_new)
               THEN [self EXCEPT !.held = held_new[1],
                                 !.deposited[data.tx].state = Chargebacked,
                                 !.locked = TRUE]
               ELSE self
      ELSE self

(* Mutant of chargeback: the NotDisputed arm of lib.rs:374 charges back too *)
chargeback_without_dispute(self, data) ==
    IF data.tx \notin DOMAIN self.deposited THEN self
    ELSE LET deposited == self.deposited[data.tx] IN
      IF deposited.state = Chargebacked THEN self
      ELSE LET held_new == checked_sub(self.held, deposited.amount)
               total_new == checked_sub(self.total, deposited.amount)
           IN  IF IsSome(held_new) /\ IsSome(total_new)
               THEN [self EXCEPT !.held = held_new[1],
                                 !.total = total_new[1],
                                 !.deposited[data.tx].state = Chargebacked,
                                 !.locked = TRUE]
               ELSE self

(* Mutant of chargeback: a chargeback of a tx the account has no deposit    *)
(* for freezes the account all the same                                    *)
chargeback_locks_always(self, data) ==
    IF data.tx \notin DOMAIN self.deposited THEN [self EXCEPT !.locked = TRUE]
    ELSE LET deposited == self.deposited[data.tx] IN
      IF deposited.state = Chargebacked THEN self
      ELSE IF deposited.state = Disputed
      THEN LET held_new == checked_sub(self.held, deposited.amount)
               total_new == checked_sub(self.total, deposited.amount)
           IN  IF IsSome(held_new) /\ IsSome(total_new)
               THEN [self EXCEPT !.held = held_new[1],
                                 !.total = total_new[1],
                                 !.deposited[data.tx].state = Chargebacked,
                                 !.locked = TRUE]
               ELSE self
      ELSE self

(* Mutant of chargeback: the charged-back Deposit is taken out of the map *)
chargeback_deletes(self, data) ==
    IF data.tx \notin DOMAIN self.deposited THEN self
    ELSE LET deposited == self.deposited[data.tx] IN
      IF deposited.state = Chargebacked THEN self
      ELSE IF deposited.state = Disputed
      THEN LET held_new == checked_sub(self.held, deposited.amount)
               total_new == checked_sub(self.total, deposited.amount)
           IN  IF IsSome(held_new) /\ IsSome(total_new)
               THEN [self EXCEPT !.held = held_new[1],
                                 !.total = total_new[1],
                                 !.deposited =
                                     [t \in (DOMAIN @) \ {data.tx} |-> @[t]],
                                 !.locked = TRUE]
               ELSE self
      ELSE self

(* Mutant of chargeback: a locked account takes no further chargeback *)
chargeback_refused_when_locked(self, data) ==
    IF self.locked THEN self
    ELSE IF data.tx \notin DOMAIN self.deposited THEN self
    ELSE LET deposited == self.deposited[data.tx] IN
      IF deposited.state = Chargebacked THEN self
      ELSE IF deposited.state = Disputed
      THEN LET held_new == checked_sub(self.held, deposited.amount)
               total_new == checked_sub(self.total, deposited.amount)
           IN  IF IsSome(held_new) /\ IsSome(total_new)
               THEN [self EXCEPT !.held = held_new[1],
                                 !.total = total_new[1],
                                 !.deposited[data.tx].state = Chargebacked,
                                 !.locked = TRUE]
               ELSE self
      ELSE self

(* Mutant of chargeback: held is not reduced (lib.rs:359 missing) *)
chargeback_keeps_held(self, data) ==
    IF data.tx \notin DOMAIN self.deposited THEN self
    ELSE LET deposited == self.deposited[data.tx] IN
      IF deposited.state = Chargebacked THEN self
      ELSE IF deposited.state = Disputed
      THEN LET held_new == checked_sub(self.held, deposited.amount)
               total_new == checked_sub(self.total, deposited.amount)
           IN  IF IsSome(held_new) /\ IsSome(total_new)
               THEN [self EXCEPT !.total = total_new[1],
                                 !.deposited[data.tx].state = Chargebacked,
                                 !.locked = TRUE]
               ELSE self
      ELSE self

(* Mutant of chargeback: the account is not frozen (lib.rs:364 missing) *)
chargeback_leaves_unlocked(self, data) ==
    IF data.tx \notin DOMAIN self.deposited THEN self
    ELSE LET deposited == self.deposited[data.tx] IN
      IF deposited.state = Chargebacked THEN self
      ELSE IF deposited.state = Disputed
      THEN LET held_new == checked_sub(self.held, deposited.amount)
               total_new == checked_sub(self.total, deposited.amount)
           IN  IF IsSome(held_new) /\ IsSome(total_new)
               THEN [self EXCEPT !.held = held_new[1],
                                 !.total = total_new[1],
                                 !.deposited[data.tx].state = Chargebacked]
               ELSE self
      ELSE self

chargeback(self, data) ==
    IF data.tx \notin DOMAIN self.deposited THEN self
    ELSE LET deposited == self.deposited[data.tx] IN
      IF deposited.state = Chargebacked THEN self
      ELSE IF deposited.state = Disputed
      THEN LET held_new == checked_sub(self.held, deposited.amount)
               total_new == checked_sub(self.total, deposited.amount)
           IN  IF IsSome(held_new) /\ IsSome(total_new)
               THEN [self EXCEPT !.held = held_new[1],
                                 !.total = total_new[1],
                                 !.deposited[data.tx].state = Chargebacked,
                                 !.locked = TRUE]
               ELSE self
      ELSE self

(* Account::update: the match on the type string *)
(* Mutant of update: dispute, resolve and chargeback consume the id they    *)
(* name                                                                    *)
update_consumes_named(self, data, set) ==
    CASE data.type = "deposit"    -> deposit(self, data, set)
      [] data.type = "withdrawl"  -> withdrawl(self, data, set)
      [] data.type = "dispute"    ->
             Out(dispute(self, data), set \cup {data.tx})
      [] data.type = "resolve"    ->
             Out(resolve(self, data), set \cup {data.tx})
      [] data.type = "chargeback" ->
             Out(chargeback(self, data), set \cup {data.tx})
      [] OTHER                    -> Out(self, set)

update(self, data, set) ==
    CASE data.type = "deposit"    -> deposit(self, data, set)
      [] data.type = "withdrawl"  -> withdrawl(self, data, set)
      [] data.type = "dispute"    -> Out(dispute(self, data), set)
      [] data.type = "resolve"    -> Out(resolve(self, data), set)
      [] data.type = "chargeback" -> Out(chargeback(self, data), set)
      [] OTHER                    -> Out(self, set)

---------------------------------------------------------------------------
(* process_records: one iteration of the loop over the rows.  read_record  *)
(* is the head of the iteration, up to the Transaction; process_record is  *)
(* the rest of it.                                                         *)

Transaction(type, client, tx, amount) ==
    [type |-> type, client |-> client, tx |-> tx, amount |-> amount]

(* Mutant of process_record: the account of a client seen for the first     *)
(* time is kept only when the row changed it                               *)
process_record_creates_on_effect(data) ==
    LET account == IF data.client \in DOMAIN account_map
                   THEN account_map[data.client]
                   ELSE AccountNew(data.client)
        out == update(account, data, tx_set)
    IN  /\ result = Reading
        /\ UNCHANGED result
        /\ account_map' = IF \/ data.client \in DOMAIN account_map
                             \/ out.account # account
                          THEN Insert(account_map, data.client, out.account)
                          ELSE account_map
        /\ tx_set' = out.tx_set
        /\ last' = data
        /\ presented' = IF data.type \in {"deposit", "withdrawl"}
                        THEN presented \cup {data.tx}
                        ELSE presented
        /\ before' = [account_map |-> account_map, tx_set |-> tx_set,
                      presented |-> presented]
        /\ before2' = IF /\ last.type = "dispute"
                         /\ data.type = "resolve"
                         /\ data.client = last.client
                         /\ data.tx = last.tx
                      THEN <<before>>
                      ELSE <<>>

process_record(data) ==
    LET account == IF data.client \in DOMAIN account_map
                   THEN account_map[data.client]
                   ELSE AccountNew(data.client)
        out == update(account, data, tx_set)
    IN  /\ result = Reading
        /\ UNCHANGED result
        /\ account_map' = Insert(account_map, data.client, out.account)
        /\ tx_set' = out.tx_set
        /\ last' = data
        /\ presented' = IF data.type \in {"deposit", "withdrawl"}
                        THEN presented \cup {data.tx}
                        ELSE presented
        /\ before' = [account_map |-> account_map, tx_set |-> tx_set,
                      presented |-> presented]
        /\ before2' = IF /\ last.type = "dispute"
                         /\ data.type = "resolve"
                         /\ data.client = last.client
                         /\ data.tx = last.tx
                      THEN <<before>>
                      ELSE <<>>

(* A StringRecord: the fields of a row, here in the order type, client,    *)
(* tx, amount; the record is empty before the first row                    *)
Row(type, client, tx, amount) == <<type, client, tx, amount>>

(* Mutant of read_record: a row whose client or tx does not parse is        *)
(* skipped and the loop goes on                                            *)
read_record_skips(type, client, tx, amount) ==
    LET client_num == parse_u16(client)
        tx_num == parse_u32(tx)
    IN  /\ result = Reading
        /\ records' = Row(type, client, tx, amount)
        /\ IF IsSome(client_num) /\ IsSome(tx_num)
           THEN process_record(Transaction(type, client_num[1], tx_num[1],
                                           amount))
           ELSE UNCHANGED <<account_map, tx_set, result, last, presented,
                            before, before2>>

(* The locals account_map and tx_set are dropped when `?` returns the       *)
(* error; they are left as they were, nothing reads them afterwards.       *)
read_record(type, client, tx, amount) ==
    LET client_num == parse_u16(client)
        tx_num == parse_u32(tx)
    IN  /\ result = Reading
        /\ records' = Row(type, client, tx, amount)
        /\ IF IsSome(client_num) /\ IsSome(tx_num)
           THEN process_record(Transaction(type, client_num[1], tx_num[1],
                                           amount))
           ELSE /\ result' = Err
                /\ UNCHANGED <<account_map, tx_set, last, presented, before,
                               before2>>

(* The amount field of a row of the general specification: absent or     *)
(* unparseable, negative, and 1.5.                                         *)
Amounts == { None, Some(-1, 0), Some(15, 1) }

Init ==
    /\ account_map = EmptyMap
    /\ tx_set = {}
    /\ records = <<>>
    /\ result = Reading
    /\ last = Transaction("", 0, 0, None)
    /\ presented = {}
    /\ before = [account_map |-> EmptyMap, tx_set |-> {}, presented |-> {}]
    /\ before2 = <<>>
    /\ log = <<>>

DepositRow ==
    \E c \in Clients, t \in TxIds, a \in Amounts :
        /\ read_record("deposit", Field(c), Field(t), a)
        /\ UNCHANGED log

WithdrawlRow ==
    \E c \in Clients, t \in TxIds, a \in Amounts :
        /\ read_record("withdrawl", Field(c), Field(t), a)
        /\ UNCHANGED log

DisputeRow ==
    \E c \in Clients, t \in TxIds :
        /\ read_record("dispute", Field(c), Field(t), None)
        /\ UNCHANGED log

ResolveRow ==
    \E c \in Clients, t \in TxIds :
        /\ read_record("resolve", Field(c), Field(t), None)
        /\ UNCHANGED log

ChargebackRow ==
    \E c \in Clients, t \in TxIds :
        /\ read_record("chargeback", Field(c), Field(t), None)
        /\ UNCHANGED log

(* A type string update does not match; "withdrawal" is one of them *)
UnknownRow ==
    \E c \in Clients, t \in TxIds :
        /\ read_record("withdrawal", Field(c), Field(t), Some(15, 1))
        /\ UNCHANGED log

(* The client and tx fields of rows that do not parse: a client of 2^16,   *)
(* a tx of 2^32, a tx that is no numeral                                   *)
MalformedFields ==
    { <<Field(Word), Field(1)>>,
      <<Field(1), Numeral(Word, 0)>>,
      <<Field(1), NotANumber>> }

MalformedRow ==
    \E fields \in MalformedFields :
        /\ read_record("deposit", fields[1], fields[2], Some(15, 1))
        /\ UNCHANGED log

(* reader.read_record answers false: the loop ends and the map is returned *)
EndOfInput ==
    /\ result = Reading
    /\ result' = Ok(account_map)
    /\ UNCHANGED <<account_map, tx_set, records, last, presented, before,
                   before2, log>>

Next ==
    \/ DepositRow
    \/ WithdrawlRow
    \/ DisputeRow
    \/ ResolveRow
    \/ ChargebackRow
    \/ UnknownRow
    \/ MalformedRow
    \/ EndOfInput

Spec == Init /\ [][Next]_vars

---------------------------------------------------------------------------
(* Scenario runs: the rows of the end-to-end streams, in any order and      *)
(* number up to MaxLog, with the rows consumed kept in log.                *)

ScenarioA ==
    << Transaction("deposit", 1, 1, Some(10, 1)),
       Transaction("deposit", 2, 2, Some(20, 1)),
       Transaction("deposit", 1, 3, Some(20, 1)),
       Transaction("withdrawal", 1, 4, Some(15, 1)),
       Transaction("withdrawal", 2, 5, Some(30, 1)) >>

ScenarioB ==
    << Transaction("deposit", 1, 1, Some(10, 1)),
       Transaction("dispute", 1, 1, None),
       Transaction("chargeback", 1, 1, None),
       Transaction("resolve", 1, 1, None) >>

ScenarioRows ==
    {ScenarioA[i] : i \in DOMAIN ScenarioA}
        \cup {ScenarioB[i] : i \in DOMAIN ScenarioB}
        \cup { Transaction("withdrawl", 1, 4, Some(15, 1)),
               Transaction("withdrawl", 2, 5, Some(30, 1)) }

ScenarioRow ==
    /\ Len(log) < MaxLog
    /\ \E data \in ScenarioRows :
          /\ read_record(data.type, Field(data.client), Field(data.tx),
                         data.amount)
          /\ log' = Append(log, data)

SpecScenario == Init /\ [][ScenarioRow]_vars

---------------------------------------------------------------------------
(* Rounding runs: deposits and withdrawals of one client whose amounts are  *)
(* written with 0 to 6 fractional digits, the 5th and 6th below, at and     *)
(* above the half.                                                         *)

RescaleAmounts ==
    { Some(0, 0), Some(12, 1), Some(123456, 5), Some(100004, 5),
      Some(100005, 5), Some(100015, 5), Some(1000049, 6), Some(5, 6) }

RescaleDepositRow ==
    \E t \in TxIds, a \in RescaleAmounts :
        /\ read_record("deposit", Field(1), Field(t), a)
        /\ UNCHANGED log

RescaleWithdrawlRow ==
    \E t \in TxIds, a \in RescaleAmounts :
        /\ read_record("withdrawl", Field(1), Field(t), a)
        /\ UNCHANGED log

NextRescale ==
    \/ RescaleDepositRow
    \/ RescaleWithdrawlRow

SpecRescale == Init /\ [][NextRescale]_vars

---------------------------------------------------------------------------
(* Large-amount runs: the general specification with 2.0 in the place of    *)
(* 1.5.  Two such amounts do not fit the range, so that the additions and   *)
(* subtractions of dispute can fail.                                       *)

LargeAmounts == { None, Some(-1, 0), Some(2, 0) }

LargeDepositRow ==
    \E c \in Clients, t \in TxIds, a \in LargeAmounts :
        /\ read_record("deposit", Field(c), Field(t), a)
        /\ UNCHANGED log

LargeWithdrawlRow ==
    \E c \in Clients, t \in TxIds, a \in LargeAmounts :
        /\ read_record("withdrawl", Field(c), Field(t), a)
        /\ UNCHANGED log

NextLarge ==
    \/ LargeDepositRow
    \/ LargeWithdrawlRow
    \/ DisputeRow
    \/ ResolveRow
    \/ ChargebackRow
    \/ UnknownRow
    \/ MalformedRow
    \/ EndOfInput

SpecLarge == Init /\ [][NextLarge]_vars

---------------------------------------------------------------------------

(* Stream runs: every stream of up to MaxStream rows over both clients and  *)
(* all tx ids, funding rows with an absent amount or 1.5, with the rows     *)
(* consumed kept in log.                                                   *)

StreamRows ==
    { Transaction(type, c, t, a) :
        type \in {"deposit", "withdrawl"}, c \in Clients, t \in TxIds,
        a \in {None, Some(15, 1)} }
      \cup { Transaction(type, c, t, None) :
               type \in {"dispute", "resolve", "chargeback"},
               c \in Clients, t \in TxIds }
      \cup { Transaction("withdrawal", c, t, Some(15, 1)) :
               c \in Clients, t \in TxIds }

StreamRow ==
    /\ Len(log) < MaxStream
    /\ \E data \in StreamRows :
          /\ read_record(data.type, Field(data.client), Field(data.tx),
                         data.amount)
          /\ log' = Append(log, data)

SpecStream == Init /\ [][StreamRow]_vars

---------------------------------------------------------------------------

(* What the properties below speak of *)

Pre == before.account_map

(* The account Account::update was called on by the last step *)
PreAccount ==
    IF last.client \in DOMAIN Pre THEN Pre[last.client]
    ELSE AccountNew(last.client)

(* The same account after the last step *)
PostAccount == account_map[last.client]

SameBalances(a, b) ==
    /\ a.available = b.available
    /\ a.held = b.held
    /\ a.total = b.total

(* The last row reached Account::deposit or Account::withdrawl *)
IsFunding == last.type \in {"deposit", "withdrawl"}

(* The last row reached Account::dispute, resolve or chargeback *)
IsDisputeKind == last.type \in {"dispute", "resolve", "chargeback"}

(* The last row passed the guards that precede the arithmetic *)
PassedGuards ==
    /\ last.tx \notin before.tx_set
    /\ IsSome(last.amount)
    /\ ~IsNegative(last.amount)
    /\ ~PreAccount.locked

(* The deposit the last row names, in the account the row names, before it *)
NamesDeposit == last.tx \in DOMAIN PreAccount.deposited

NamedDeposit == PreAccount.deposited[last.tx]

(* The last row left every account that existed as it was, and an account   *)
(* it created is empty                                                     *)
LedgerAsBefore ==
    /\ \A c \in DOMAIN Pre : account_map[c] = Pre[c]
    /\ last.client \notin DOMAIN Pre => PostAccount = AccountNew(last.client)

(* The row read last is the row applied last: no row has failed to parse    *)
(* since                                                                   *)
LastIsRead ==
    records = Row(last.type, Field(last.client), Field(last.tx), last.amount)

(* The client or the tx field of the row read last does not parse *)
FailsToParse ==
    /\ records # <<>>
    /\ \/ ~IsSome(parse_u16(records[2]))
       \/ ~IsSome(parse_u32(records[3]))

(* The guards of deposit and withdrawl that refuse the last row *)
FundingRejected ==
    /\ IsFunding
    /\ \/ last.tx \in before.tx_set
       \/ ~IsSome(last.amount)
       \/ PreAccount.locked
       \/ IsNegative(last.amount)
       \/ /\ last.type = "deposit"
          /\ \/ ~InRange(PreAccount.total + rescale(last.amount))
             \/ ~InRange(PreAccount.available + rescale(last.amount))
       \/ /\ last.type = "withdrawl"
          /\ \/ PreAccount.available < rescale(last.amount)
             \/ ~InRange(PreAccount.total - rescale(last.amount))
             \/ ~InRange(PreAccount.available - rescale(last.amount))

(* The arms of update are the five strings; anything else is unknown *)
UnknownKind ==
    /\ last.client \in DOMAIN account_map
    /\ last.type \notin {"deposit", "withdrawl", "dispute", "resolve",
                         "chargeback"}

(* The last row is a dispute, resolve or chargeback of a tx its account     *)
(* has no deposit for, of a deposit in another state than the row asks      *)
(* for, or one whose arithmetic leaves the range                           *)
DisputeKindRejected ==
    /\ IsDisputeKind
    /\ \/ ~NamesDeposit
       \/ /\ last.type = "dispute"
          /\ \/ NamedDeposit.state # NotDisputed
             \/ ~InRange(PreAccount.available - NamedDeposit.amount)
             \/ ~InRange(PreAccount.held + NamedDeposit.amount)
       \/ /\ last.type = "resolve"
          /\ \/ NamedDeposit.state # Disputed
             \/ ~InRange(PreAccount.available + NamedDeposit.amount)
             \/ ~InRange(PreAccount.held - NamedDeposit.amount)
       \/ /\ last.type = "chargeback"
          /\ \/ NamedDeposit.state # Disputed
             \/ ~InRange(PreAccount.held - NamedDeposit.amount)
             \/ ~InRange(PreAccount.total - NamedDeposit.amount)

(* The rows of the stream before the last one (stream runs) *)
Earlier == 1..(Len(log) - 1)

---------------------------------------------------------------------------
(* C1: for every account, after every prefix of every input stream,        *)
(* available + held = total.                                               *)
C1_BalanceInvariant ==
    \A c \in DOMAIN account_map :
        account_map[c].available + account_map[c].held = account_map[c].total

(* An account with funds held and a negative available balance *)
C1_Witness ==
    \E c \in DOMAIN account_map :
        account_map[c].held > 0 /\ account_map[c].available < 0

(* C2: for every account, in every reachable state, held >= 0. *)
C2_HeldNonNegative ==
    \A c \in DOMAIN account_map : account_map[c].held >= 0

(* A resolve or chargeback has just taken funds out of held *)
C2_Witness ==
    /\ last.type \in {"resolve", "chargeback"}
    /\ PostAccount.held < PreAccount.held

(* C3: once an account is locked, no later row of any kind unlocks it. *)
C3_LockMonotonic ==
    [][\A c \in DOMAIN account_map :
          account_map[c].locked =>
              c \in DOMAIN account_map' /\ account_map'[c].locked]_vars

(* A resolve has released a dispute of an account that was already locked *)
C3_Witness ==
    /\ last.type = "resolve"
    /\ PreAccount.locked
    /\ NamesDeposit
    /\ NamedDeposit.state = Disputed
    /\ PostAccount.deposited[last.tx].state = NotDisputed

(* C4: a deposit or withdrawal row whose tx was already carried by an      *)
(* earlier row that reached Account::deposit or Account::withdrawl changes *)
(* no balance of its client and records no additional Deposit.             *)
C4_ReplayChangesNothing ==
    (last.type \in {"deposit", "withdrawl", "withdrawal"}
        /\ last.tx \in before.presented) =>
            /\ SameBalances(PostAccount, PreAccount)
            /\ PostAccount.deposited = PreAccount.deposited

(* The replay of a deposit its client's account has recorded, well-formed   *)
(* and on an unlocked account: the account holds that one Deposit and its   *)
(* amount once                                                             *)
C4_Witness ==
    /\ last.type = "deposit"
    /\ IsSome(last.amount)
    /\ ~IsNegative(last.amount)
    /\ ~PreAccount.locked
    /\ NamesDeposit
    /\ DOMAIN PostAccount.deposited = {last.tx}
    /\ PostAccount.total = rescale(last.amount)

(* C5: a dispute of a NotDisputed deposit immediately followed by a resolve *)
(* of the same tx restores available and held to their values before the   *)
(* dispute, leaves total unchanged and the deposit NotDisputed.            *)
C5_DisputeResolveCycle ==
    before2 # <<>> =>
        LET c == last.client
            t == last.tx
            start == before2[1].account_map
        IN  (c \in DOMAIN start
                /\ t \in DOMAIN start[c].deposited
                /\ start[c].deposited[t].state = NotDisputed) =>
                    /\ SameBalances(account_map[c], start[c])
                    /\ account_map[c].deposited[t].state = NotDisputed

(* The dispute moved the funds to held and the resolve moved them back *)
C5_Witness ==
    /\ before2 # <<>>
    /\ last.client \in DOMAIN before2[1].account_map
    /\ NamesDeposit
    /\ before2[1].account_map[last.client].deposited[last.tx].state = NotDisputed
    /\ NamedDeposit.state = Disputed
    /\ PreAccount.held > PostAccount.held

(* C6: a deposit whose amount would take total or available out of range    *)
(* leaves available, held, total and the deposit map unchanged.            *)
C6_OverflowRejected ==
    (last.type = "deposit" /\ PassedGuards
        /\ (\/ PreAccount.total + rescale(last.amount) > DecimalMax
            \/ PreAccount.available + rescale(last.amount) > DecimalMax)) =>
                /\ SameBalances(PostAccount, PreAccount)
                /\ PostAccount.deposited = PreAccount.deposited
                /\ PostAccount.locked = PreAccount.locked

(* A deposit that passed every guard and would have overflowed total *)
C6_Witness ==
    /\ last.type = "deposit"
    /\ PassedGuards
    /\ PreAccount.total + rescale(last.amount) > DecimalMax
    /\ PreAccount.total > 0

(* Rounding of <<m, s>> to 4 fractional digits, in 1/10000 units *)
Quotient(amount) == amount[1] \div Pow10(amount[2] - Scale)

Rest(amount) == amount[1] % Pow10(amount[2] - Scale)

Half(amount) == Pow10(amount[2] - Scale) \div 2

RoundHalfEven(amount) ==
    IF amount[2] <= Scale THEN amount[1] * Pow10(Scale - amount[2])
    ELSE IF \/ Rest(amount) > Half(amount)
            \/ Rest(amount) = Half(amount) /\ Quotient(amount) % 2 = 1
         THEN Quotient(amount) + 1
         ELSE Quotient(amount)

RoundHalfUp(amount) ==
    IF amount[2] <= Scale THEN amount[1] * Pow10(Scale - amount[2])
    ELSE IF Rest(amount) >= Half(amount)
         THEN Quotient(amount) + 1
         ELSE Quotient(amount)

(* The ledger effect of the last funding row when its amount counts as r:   *)
(* an accepted deposit adds r to total and available and records r; an      *)
(* accepted withdrawal takes r from both.                                  *)
AppliedAs(r) ==
    /\ (last.type = "deposit" /\ PassedGuards
           /\ InRange(PreAccount.total + r)
           /\ InRange(PreAccount.available + r)) =>
               /\ PostAccount.total = PreAccount.total + r
               /\ PostAccount.available = PreAccount.available + r
               /\ last.tx \in DOMAIN PostAccount.deposited
               /\ PostAccount.deposited[last.tx].amount = r
    /\ (last.type = "withdrawl" /\ PassedGuards
           /\ PreAccount.available >= r) =>
               /\ PostAccount.total = PreAccount.total - r
               /\ PostAccount.available = PreAccount.available - r

(* C7, as stated: every deposit or withdrawal amount reaches the ledger     *)
(* rounded half-to-even to 4 fractional digits.                            *)
C7_RoundsHalfToEven ==
    (IsFunding /\ IsSome(last.amount)) => AppliedAs(RoundHalfEven(last.amount))

(* C7, amended: every deposit or withdrawal amount reaches the ledger       *)
(* rounded to 4 fractional digits with a half rounded up (away from zero),  *)
(* and zero-padded when it has fewer digits.                               *)
C7_RoundsHalfUp ==
    (IsFunding /\ IsSome(last.amount)) => AppliedAs(RoundHalfUp(last.amount))

(* An accepted deposit of an exact half above an even 4th digit: 1.00005    *)
(* is recorded as 1.0001                                                   *)
C7_Witness ==
    /\ last.type = "deposit"
    /\ PassedGuards
    /\ last.amount[2] > Scale
    /\ Rest(last.amount) = Half(last.amount)
    /\ Quotient(last.amount) % 2 = 0
    /\ last.tx \in DOMAIN PostAccount.deposited
    /\ PostAccount.deposited[last.tx].amount = Quotient(last.amount) + 1

(* C8: rows of kind `withdrawal` withdraw; stream A ends with client 1 at   *)
(* available 1.5, held 0, total 1.5, unlocked and client 2 at available 2,  *)
(* held 0, total 2, unlocked.                                              *)
C8_ScenarioA ==
    log = ScenarioA =>
        /\ account_map[1].available = 15000
        /\ account_map[1].held = 0
        /\ account_map[1].total = 15000
        /\ ~account_map[1].locked
        /\ account_map[2].available = 20000
        /\ account_map[2].held = 0
        /\ account_map[2].total = 20000
        /\ ~account_map[2].locked

(* C9: a chargeback of a Disputed deposit takes its amount from held and    *)
(* total, locks the account and leaves the deposit Chargebacked; after      *)
(* that, a dispute, resolve or chargeback naming the tx changes no account. *)
C9_ChargebackTerminal ==
    /\ (last.type = "chargeback" /\ NamesDeposit
           /\ NamedDeposit.state = Disputed) =>
               /\ PostAccount.held = PreAccount.held - NamedDeposit.amount
               /\ PostAccount.total = PreAccount.total - NamedDeposit.amount
               /\ PostAccount.available = PreAccount.available
               /\ PostAccount.locked
               /\ PostAccount.deposited[last.tx].state = Chargebacked
    /\ (IsDisputeKind
           /\ \E c \in DOMAIN Pre :
                 /\ last.tx \in DOMAIN Pre[c].deposited
                 /\ Pre[c].deposited[last.tx].state = Chargebacked) =>
               /\ \A c \in DOMAIN Pre : account_map[c] = Pre[c]
               /\ last.client \notin DOMAIN Pre =>
                      PostAccount = AccountNew(last.client)

(* A dispute, resolve or chargeback was sent to the owner of a deposit that *)
(* an earlier chargeback had emptied: deposit, dispute, chargeback ended at *)
(* available 0, held 0, total 0, locked                                    *)
C9_Witness ==
    /\ IsDisputeKind
    /\ NamesDeposit
    /\ NamedDeposit.state = Chargebacked
    /\ PostAccount.locked
    /\ PostAccount.available = 0
    /\ PostAccount.held = 0
    /\ PostAccount.total = 0

(* C10: once a tx has been carried by a row that reached Account::deposit   *)
(* or Account::withdrawl, for any client, a later deposit or withdrawal     *)
(* with that tx, for the same or another client, changes no account: every  *)
(* account that existed is as it was and an account it creates is empty.    *)
C10_GlobalIdNamespace ==
    (IsFunding /\ last.tx \in before.presented) =>
        /\ \A c \in DOMAIN Pre : account_map[c] = Pre[c]
        /\ last.client \notin DOMAIN Pre =>
               PostAccount = AccountNew(last.client)

(* A well-formed, funded withdrawal reused the tx of a deposit recorded by   *)
(* another client: the other client and the other kind                     *)
C10_Witness ==
    /\ last.type = "withdrawl"
    /\ IsSome(last.amount)
    /\ ~IsNegative(last.amount)
    /\ ~PreAccount.locked
    /\ rescale(last.amount) > 0
    /\ PreAccount.available >= rescale(last.amount)
    /\ \E c \in DOMAIN Pre :
          c # last.client /\ last.tx \in DOMAIN Pre[c].deposited

(* C11: a row that reaches Account::deposit or Account::withdrawl with an   *)
(* absent amount changes no account, yet its tx is in the consumed-id set   *)
(* afterwards; and a later funding row that reuses the tx of such an        *)
(* earlier row of the stream changes no account either.                    *)
C11_AbsentAmountConsumesId ==
    /\ (IsFunding /\ ~IsSome(last.amount)) =>
           /\ LedgerAsBefore
           /\ last.tx \in tx_set
    /\ (IsFunding
           /\ \E i \in Earlier :
                 /\ log[i].type \in {"deposit", "withdrawl"}
                 /\ ~IsSome(log[i].amount)
                 /\ log[i].tx = last.tx) =>
               LedgerAsBefore

(* A deposit of 1.5 into an unlocked account, refused because the only      *)
(* earlier row that carried its tx was a deposit without an amount          *)
C11_Witness ==
    /\ Len(log) = 2
    /\ log[1].type = "deposit"
    /\ ~IsSome(log[1].amount)
    /\ log[1].tx = last.tx
    /\ last.type = "deposit"
    /\ IsSome(last.amount)
    /\ ~IsNegative(last.amount)
    /\ ~PreAccount.locked
    /\ PostAccount.total = 0
    /\ DOMAIN PostAccount.deposited = {}

(* C12: a row that reaches Account::deposit or Account::withdrawl on a      *)
(* locked account leaves available, held, total and the deposit map of      *)
(* that account as they were, whatever its amount.                         *)
C12_LockedRejectsFunding ==
    (IsFunding /\ PreAccount.locked) =>
        /\ SameBalances(PostAccount, PreAccount)
        /\ PostAccount.deposited = PreAccount.deposited

(* A withdrawal with a fresh tx and an amount the locked account could pay *)
C12_Witness ==
    /\ last.type = "withdrawl"
    /\ PreAccount.locked
    /\ last.tx \notin before.tx_set
    /\ IsSome(last.amount)
    /\ ~IsNegative(last.amount)
    /\ rescale(last.amount) > 0
    /\ PreAccount.available >= rescale(last.amount)

(* C13: a row refused by a guard of its handler (absent or negative         *)
(* amount, locked account, insufficient funds, duplicate tx, unknown kind,  *)
(* dispute, resolve or chargeback of a missing tx or of a deposit in        *)
(* another state, arithmetic out of range) leaves every account that        *)
(* existed exactly as it was, and the loop goes on: as long as no other     *)
(* row has been read, process_records has returned no error.               *)
C13_RejectionIsAllOrNothing ==
    (FundingRejected \/ UnknownKind \/ DisputeKindRejected) =>
        /\ LedgerAsBefore
        /\ LastIsRead => result # Err

(* A dispute of a NotDisputed deposit refused because held would leave the  *)
(* range, on an account that holds another disputed deposit                *)
C13_Witness ==
    /\ last.type = "dispute"
    /\ NamesDeposit
    /\ NamedDeposit.state = NotDisputed
    /\ InRange(PreAccount.available - NamedDeposit.amount)
    /\ ~InRange(PreAccount.held + NamedDeposit.amount)
    /\ result = Reading

(* C14: a row whose client does not parse as a u16 or whose tx does not     *)
(* parse as a u32 makes process_records return the error: that row          *)
(* changes no account and no id, no step follows the return, and what is    *)
(* returned is the error, never a map of accounts.                         *)
C14_MalformedRowIsFatal ==
    /\ [](FailsToParse => result = Err)
    /\ [][/\ result = Reading
          /\ result' = Err => UNCHANGED <<account_map, tx_set>>]_vars

(* The error was returned while the ledger held an account with funds *)
C14_Witness ==
    /\ FailsToParse
    /\ result = Err
    /\ \E c \in DOMAIN account_map : account_map[c].total > 0

(* The last row is a dispute of a NotDisputed deposit of its account *)
DisputesNotDisputed ==
    /\ last.type = "dispute"
    /\ NamesDeposit
    /\ NamedDeposit.state = NotDisputed

(* The dispute moved the amount of the deposit from available to held *)
DisputeMoved ==
    /\ PostAccount.available = PreAccount.available - NamedDeposit.amount
    /\ PostAccount.held = PreAccount.held + NamedDeposit.amount
    /\ PostAccount.total = PreAccount.total
    /\ PostAccount.locked = PreAccount.locked
    /\ PostAccount.deposited =
           [PreAccount.deposited EXCEPT ![last.tx].state = Disputed]

(* C15, as stated: a dispute of a NotDisputed deposit always moves the      *)
(* amount of the deposit from available to held, total unchanged, and       *)
(* leaves the deposit Disputed.                                            *)
C15_DisputeAlwaysMoves ==
    DisputesNotDisputed => DisputeMoved

(* C15, amended: a dispute of a NotDisputed deposit has no funds guard.     *)
(* When available - amount and held + amount are both in range it moves     *)
(* the amount from available to held, total unchanged, and leaves the       *)
(* deposit Disputed, whatever available was; otherwise it changes nothing.  *)
C15_DisputeMovesUnlessOutOfRange ==
    DisputesNotDisputed =>
        IF /\ InRange(PreAccount.available - NamedDeposit.amount)
           /\ InRange(PreAccount.held + NamedDeposit.amount)
        THEN DisputeMoved
        ELSE PostAccount = PreAccount

(* A dispute of a deposit whose funds had been withdrawn: available was     *)
(* smaller than the amount and is negative afterwards                      *)
C15_Witness ==
    /\ DisputesNotDisputed
    /\ NamedDeposit.amount > 0
    /\ PreAccount.available < NamedDeposit.amount
    /\ PostAccount.available < 0
    /\ PostAccount.deposited[last.tx].state = Disputed

(* C16: the state of a recorded deposit changes only from NotDisputed to    *)
(* Disputed by a dispute, from Disputed to NotDisputed by a resolve and     *)
(* from Disputed to Chargebacked by a chargeback, each naming that deposit  *)
(* in its client's row; a resolve or chargeback of a NotDisputed deposit    *)
(* and a dispute of a Disputed deposit change nothing of the account.       *)
C16_LifecycleTransitions ==
    /\ \A c \in DOMAIN Pre : \A t \in DOMAIN Pre[c].deposited :
          LET old == Pre[c].deposited[t].state
              new == account_map[c].deposited[t].state
          IN  old # new =>
                  /\ c = last.client
                  /\ t = last.tx
                  /\ \/ old = NotDisputed /\ new = Disputed
                                          /\ last.type = "dispute"
                     \/ old = Disputed /\ new = NotDisputed
                                       /\ last.type = "resolve"
                     \/ old = Disputed /\ new = Chargebacked
                                       /\ last.type = "chargeback"
    /\ (NamesDeposit
           /\ \/ last.type \in {"resolve", "chargeback"}
                    /\ NamedDeposit.state = NotDisputed
              \/ last.type = "dispute" /\ NamedDeposit.state = Disputed) =>
               PostAccount = PreAccount

(* A resolve of a NotDisputed deposit of an account whose held funds, from  *)
(* another deposit, would have covered it                                  *)
C16_Witness ==
    /\ last.type = "resolve"
    /\ NamesDeposit
    /\ NamedDeposit.state = NotDisputed
    /\ NamedDeposit.amount > 0
    /\ PreAccount.held >= NamedDeposit.amount

(* No earlier row of the stream carries the tx of the last row: the tx was  *)
(* never seen, or its deposit comes only later                             *)
NeverSeen == log # <<>> /\ \A i \in Earlier : log[i].tx # last.tx

(* The tx of the last row is a recorded deposit of another client *)
OfAnotherClient ==
    \E c \in DOMAIN Pre :
        c # last.client /\ last.tx \in DOMAIN Pre[c].deposited

(* The first row of the stream that reached deposit or withdrawl with the   *)
(* tx of the last row was a withdrawal                                     *)
WasWithdrawal ==
    \E i \in Earlier :
        /\ log[i].type = "withdrawl"
        /\ log[i].tx = last.tx
        /\ \A j \in 1..(i - 1) :
              log[j].tx = last.tx =>
                  log[j].type \notin {"deposit", "withdrawl"}

(* C17: a dispute, resolve or chargeback whose tx is not, at that point of  *)
(* the stream, a recorded deposit of the client of the row changes no       *)
(* account and no id; and that is the case of a tx never seen so far (its   *)
(* deposit may come later), of a deposit of another client, and of a tx     *)
(* that was a withdrawal.                                                  *)
C17_UnknownDepositIgnored ==
    /\ (IsDisputeKind /\ ~NamesDeposit) =>
           /\ LedgerAsBefore
           /\ tx_set = before.tx_set
    /\ (IsDisputeKind /\ (NeverSeen \/ OfAnotherClient \/ WasWithdrawal)) =>
           ~NamesDeposit

(* A dispute of the tx of an accepted withdrawal of the same client, whose  *)
(* account holds a deposit: deposit, withdrawal, dispute                   *)
C17_Witness ==
    /\ Len(log) = 3
    /\ last.type = "dispute"
    /\ log[1].type = "deposit"
    /\ log[1].client = last.client
    /\ log[2].type = "withdrawl"
    /\ log[2].client = last.client
    /\ log[2].tx = last.tx
    /\ DOMAIN PreAccount.deposited = {log[1].tx}
    /\ PreAccount.total = 0
    /\ PreAccount.deposited[log[1].tx].amount > 0
    /\ ~NamesDeposit

(* Every earlier row of the stream that carries the tx of the last row is   *)
(* a dispute, resolve or chargeback, and there is one                      *)
OnlyNamedByDisputeKinds ==
    /\ \E i \in Earlier : log[i].tx = last.tx
    /\ \A i \in Earlier :
          log[i].tx = last.tx =>
              log[i].type \in {"dispute", "resolve", "chargeback"}

(* C18: a dispute, resolve or chargeback leaves the consumed-id set as it   *)
(* was and its outcome is the same whatever the set holds; so a deposit     *)
(* with an amount, not negative, to an unlocked account and in range,       *)
(* whose tx was carried so far by such rows only, is accepted.             *)
C18_DisputeKindsLeaveIdSet ==
    /\ IsDisputeKind =>
           /\ tx_set = before.tx_set
           /\ \A set \in SUBSET TxIds :
                 /\ update(PreAccount, last, set).account = PostAccount
                 /\ update(PreAccount, last, set).tx_set = set
    /\ (last.type = "deposit"
           /\ OnlyNamedByDisputeKinds
           /\ IsSome(last.amount)
           /\ ~IsNegative(last.amount)
           /\ ~PreAccount.locked
           /\ InRange(PreAccount.total + rescale(last.amount))
           /\ InRange(PreAccount.available + rescale(last.amount))) =>
               /\ last.tx \in tx_set
               /\ last.tx \in DOMAIN PostAccount.deposited
               /\ PostAccount.total =
                      PreAccount.total + rescale(last.amount)
               /\ PostAccount.available =
                      PreAccount.available + rescale(last.amount)

(* A deposit accepted after a dispute and a chargeback of the same client   *)
(* had named its tx                                                        *)
C18_Witness ==
    /\ Len(log) = 3
    /\ log[1].type = "dispute"
    /\ log[2].type = "chargeback"
    /\ log[1].tx = last.tx
    /\ log[2].tx = last.tx
    /\ log[1].client = last.client
    /\ log[2].client = last.client
    /\ last.type = "deposit"
    /\ last.tx \in DOMAIN PostAccount.deposited
    /\ PostAccount.deposited[last.tx].state = NotDisputed
    /\ PostAccount.available > 0
    /\ ~PostAccount.locked

(* C19: a Deposit that was not in its account's map before the last row     *)
(* is the one an accepted deposit row of that client and tx has just        *)
(* recorded, with the credited amount; a Deposit that was in the map is     *)
(* still in it, with the same amount.                                      *)
C19_DepositRecordsPersist ==
    /\ \A c \in DOMAIN account_map : \A t \in DOMAIN account_map[c].deposited :
          (c \notin DOMAIN Pre \/ t \notin DOMAIN Pre[c].deposited) =>
              /\ last.type = "deposit"
              /\ last.client = c
              /\ last.tx = t
              /\ PassedGuards
              /\ account_map[c].deposited[t] =
                     DepositNew(rescale(last.amount))
              /\ PostAccount.total = PreAccount.total + rescale(last.amount)
              /\ PostAccount.available =
                     PreAccount.available + rescale(last.amount)
    /\ \A c \in DOMAIN Pre : \A t \in DOMAIN Pre[c].deposited :
          /\ c \in DOMAIN account_map
          /\ t \in DOMAIN account_map[c].deposited
          /\ account_map[c].deposited[t].amount = Pre[c].deposited[t].amount

(* A chargeback has just emptied a deposit: the record is still in the map  *)
(* with its amount, marked Chargebacked                                    *)
C19_Witness ==
    /\ last.type = "chargeback"
    /\ NamesDeposit
    /\ NamedDeposit.state = Disputed
    /\ NamedDeposit.amount > 0
    /\ last.tx \in DOMAIN PostAccount.deposited
    /\ PostAccount.deposited[last.tx].state = Chargebacked
    /\ PostAccount.deposited[last.tx].amount = NamedDeposit.amount
    /\ PostAccount.held < PreAccount.held

(* The last row is a deposit that reached the insert of lib.rs:201 *)
DepositAccepted ==
    /\ last.type = "deposit"
    /\ PassedGuards
    /\ InRange(PreAccount.total + rescale(last.amount))
    /\ InRange(PreAccount.available + rescale(last.amount))

(* C20: no tx is a key of the deposit maps of two accounts, every key of    *)
(* a deposit map is in the consumed-id set, and the tx of an accepted       *)
(* deposit was not a key of any deposit map before it.                     *)
C20_InsertNeverOverwrites ==
    /\ \A c1 \in DOMAIN account_map : \A c2 \in DOMAIN account_map :
          c1 # c2 =>
              (DOMAIN account_map[c1].deposited)
                  \cap (DOMAIN account_map[c2].deposited) = {}
    /\ \A c \in DOMAIN account_map :
          DOMAIN account_map[c].deposited \subseteq tx_set
    /\ DepositAccepted =>
           /\ \A c \in DOMAIN Pre : last.tx \notin DOMAIN Pre[c].deposited
           /\ last.tx \in DOMAIN PostAccount.deposited

(* A deposit accepted into an account that holds a deposit already, while   *)
(* another client's account holds one too                                  *)
C20_Witness ==
    /\ DepositAccepted
    /\ DOMAIN PreAccount.deposited # {}
    /\ \E c \in DOMAIN Pre :
          c # last.client /\ DOMAIN Pre[c].deposited # {}
    /\ Cardinality(DOMAIN PostAccount.deposited) = 2

(* A row has been applied: last is a Transaction of the input *)
Applied == last.client \in Clients

(* C21: after a row of any kind the account of its client is in the         *)
(* ledger, under its own client id; when the client was seen for the first   *)
(* time and the row was refused or of an unknown kind, that account is the  *)
(* empty one; every account that was in the ledger is still in it, and the  *)
(* row adds no other account.                                              *)
C21_AccountCreatedOnFirstRow ==
    /\ Applied =>
           /\ last.client \in DOMAIN account_map
           /\ DOMAIN account_map = (DOMAIN Pre) \cup {last.client}
    /\ \A c \in DOMAIN account_map : account_map[c].client = c
    /\ (Applied /\ last.client \notin DOMAIN Pre
           /\ (FundingRejected \/ UnknownKind \/ DisputeKindRejected)) =>
               /\ last.client \in DOMAIN account_map
               /\ account_map[last.client] = AccountNew(last.client)
    /\ DOMAIN Pre \subseteq DOMAIN account_map

(* A row of an unknown kind was the first to name its client, while the     *)
(* ledger held another client's account: the new account is empty          *)
C21_Witness ==
    /\ Applied
    /\ last.client \notin DOMAIN Pre
    /\ DOMAIN Pre # {}
    /\ last.type = "withdrawal"
    /\ last.client \in DOMAIN account_map
    /\ account_map[last.client] = AccountNew(last.client)

(* The resolve moved the amount of the deposit from held back to available *)
ResolveMoved ==
    /\ PostAccount.available = PreAccount.available + NamedDeposit.amount
    /\ PostAccount.held = PreAccount.held - NamedDeposit.amount
    /\ PostAccount.total = PreAccount.total
    /\ PostAccount.locked = PreAccount.locked
    /\ PostAccount.deposited =
           [PreAccount.deposited EXCEPT ![last.tx].state = NotDisputed]

(* The chargeback took the amount of the deposit from held and total *)
ChargebackApplied ==
    /\ PostAccount.available = PreAccount.available
    /\ PostAccount.held = PreAccount.held - NamedDeposit.amount
    /\ PostAccount.total = PreAccount.total - NamedDeposit.amount
    /\ PostAccount.locked
    /\ PostAccount.deposited =
           [PreAccount.deposited EXCEPT ![last.tx].state = Chargebacked]

(* The deposits of an account that are in a given state *)
InState(acct, state) ==
    { t \in DOMAIN acct.deposited : acct.deposited[t].state = state }

(* C22: on a locked account a dispute of a NotDisputed deposit, a resolve   *)
(* of a Disputed deposit and a chargeback of a Disputed deposit have their  *)
(* effect on the balances and the deposit as on an unlocked one, when the   *)
(* arithmetic is in range.                                                 *)
C22_LockGatesFundingOnly ==
    (PreAccount.locked /\ IsDisputeKind /\ NamesDeposit) =>
        /\ (last.type = "dispute" /\ NamedDeposit.state = NotDisputed
               /\ InRange(PreAccount.available - NamedDeposit.amount)
               /\ InRange(PreAccount.held + NamedDeposit.amount)) =>
                   DisputeMoved
        /\ (last.type = "resolve" /\ NamedDeposit.state = Disputed
               /\ InRange(PreAccount.available + NamedDeposit.amount)
               /\ InRange(PreAccount.held - NamedDeposit.amount)) =>
                   ResolveMoved
        /\ (last.type = "chargeback" /\ NamedDeposit.state = Disputed
               /\ InRange(PreAccount.held - NamedDeposit.amount)
               /\ InRange(PreAccount.total - NamedDeposit.amount)) =>
                   ChargebackApplied

(* A chargeback applied on an account that was locked already: the account  *)
(* holds two Chargebacked deposits                                         *)
C22_Witness ==
    /\ last.type = "chargeback"
    /\ PreAccount.locked
    /\ NamesDeposit
    /\ NamedDeposit.state = Disputed
    /\ NamedDeposit.amount > 0
    /\ PostAccount.total < PreAccount.total
    /\ Cardinality(InState(PostAccount, Chargebacked)) = 2

(* C23: a row leaves the account of every client other than its own as it   *)
(* was, and what it does to its own account and to the id set is            *)
(* determined by that account, the row and the id set.                     *)
C23_OtherAccountsUntouched ==
    Applied =>
        /\ \A c \in DOMAIN Pre :
              c # last.client =>
                  c \in DOMAIN account_map /\ account_map[c] = Pre[c]
        /\ PostAccount = update(PreAccount, last, before.tx_set).account
        /\ tx_set = update(PreAccount, last, before.tx_set).tx_set

(* A chargeback froze one client's account and took its funds while the     *)
(* other client's account, funded and unlocked, stayed as it was           *)
C23_Witness ==
    /\ last.type = "chargeback"
    /\ NamesDeposit
    /\ NamedDeposit.state = Disputed
    /\ PostAccount.locked
    /\ ~PreAccount.locked
    /\ \E c \in DOMAIN account_map :
          /\ c # last.client
          /\ account_map[c].total > 0
          /\ ~account_map[c].locked

(* The sum of the amounts of the deposits of an account whose tx is in set *)
RECURSIVE SumOfAmounts(_, _)
SumOfAmounts(acct, set) ==
    IF set = {} THEN 0
    ELSE LET t == CHOOSE x \in set : TRUE
         IN  acct.deposited[t].amount + SumOfAmounts(acct, set \ {t})

(* C24: in every reachable state, held of every account is the sum of the   *)
(* amounts of its deposits in state Disputed.                              *)
C24_HeldIsSumOfDisputed ==
    \A c \in DOMAIN account_map :
        account_map[c].held =
            SumOfAmounts(account_map[c], InState(account_map[c], Disputed))

(* An account with two deposits under dispute at once, part of whose funds *)
(* had been withdrawn                                                      *)
C24_Witness ==
    \E c \in DOMAIN account_map :
        /\ Cardinality(InState(account_map[c], Disputed)) = 2
        /\ account_map[c].held > 0
        /\ account_map[c].available < 0

(* C25: in every reachable state an account is locked if and only if one    *)
(* of its deposits is Chargebacked.                                        *)
C25_LockedIffChargebacked ==
    \A c \in DOMAIN account_map :
        account_map[c].locked <=> InState(account_map[c], Chargebacked) # {}

(* A locked account with one Chargebacked deposit beside a deposit that is  *)
(* not, and an unlocked account with a deposit under dispute               *)
C25_Witness ==
    /\ \E c \in DOMAIN account_map :
          /\ account_map[c].locked
          /\ Cardinality(InState(account_map[c], Chargebacked)) = 1
          /\ InState(account_map[c], NotDisputed) # {}
    /\ \E c \in DOMAIN account_map :
          /\ ~account_map[c].locked
          /\ InState(account_map[c], Disputed) # {}

(* C26: a row that reaches Account::deposit or Account::withdrawl leaves    *)
(* its tx in the consumed-id set whatever guard refuses it afterwards       *)
(* (locked account, negative amount, insufficient funds, arithmetic out of  *)
(* range); no id ever leaves the set; and a funding row whose tx is in the  *)
(* set changes no account.                                                 *)
C26_IdConsumedBeforeGuards ==
    /\ IsFunding => tx_set = before.tx_set \cup {last.tx}
    /\ (FundingRejected /\ last.tx \notin before.tx_set) =>
           /\ last.tx \in tx_set
           /\ LedgerAsBefore
    /\ before.tx_set \subseteq tx_set
    /\ (IsFunding /\ last.tx \in before.tx_set) => LedgerAsBefore

(* A deposit with a fresh tx passed the lock and sign tests and was         *)
(* refused for the range of total: it is not recorded, and its tx is        *)
(* consumed                                                                *)
C26_Witness ==
    /\ last.type = "deposit"
    /\ PassedGuards
    /\ ~InRange(PreAccount.total + rescale(last.amount))
    /\ last.tx \notin DOMAIN PostAccount.deposited
    /\ PostAccount.total = PreAccount.total
    /\ last.tx \in tx_set

=============================================================================
